---- MODULE Spec2Model ----
(***************************************************************************)
(* Model of dataiter/write.pyx: the hashing tap (iter_hash), the path      *)
(* resolver (decompressed_filepath, open_writable_file), the chunk sink    *)
(* (write_data) and the writer facade (file_writer).                       *)
(*                                                                         *)
(* A filepath is a sequence of string fragments.  "." and "/" are the      *)
(* extension and directory separators; every other fragment is a run of    *)
(* characters holding neither.  The fragments form a prefix-free set, so   *)
(* two fragment sequences are equal exactly when the strings are.          *)
(***************************************************************************)
EXTENDS Integers, Sequences, FiniteSets, TLC

\* ---------------------------------------------------------------- bounds
MaxPathLen == 4
MaxChunks == 2
MaxCalls == 2
MaxTapChunks == 4
MaxMemChunks == 5

VARIABLES
  fs,           \* the files on disk: name -> the stream file_writer opened on it
  calls,        \* file_writer calls made so far
  pc,           \* "idle", "loop" (about to pull), "write", "returned", "raised"
  filelike,     \* the destination argument of the current call
  arg,          \* the compression argument as the caller passed it
  compression,  \* the compression argument, default applied
  filepath,     \* the local filepath of the path branch
  fileobj,      \* the name of the file behind the local fileobj
  handle,       \* the caller's handle of the current call, with the operations done on it
  produced,     \* the chunks the source has produced in this call
  data,         \* the loop variable
  result,       \* the value returned
  err,          \* the exception raised
  repeat,       \* history: the call before had this path and compression and created its file
  retry,        \* history: "kept"/"removed" when this call repeats a path call that failed
                \* after creating its file, and the file was kept or removed; else "none"
  removed,      \* history: the call whose file the caller removed since it ended
  fs0,          \* history: the files on disk when the current call began
  tsrc,         \* iter_hash: the chunks pulled from data_iter
  digest,       \* iter_hash: the updates the hash object received
  received,     \* iter_hash: the chunks the consumer received
  tdata,        \* iter_hash: the loop variable
  tpc,          \* iter_hash: "ready", "update", "yield", "done", "raised", "aborted"
  mpc,          \* memory_writer: "idle", "loop", "returned", "raised"
  msrc,         \* memory_writer: the chunks pulled from data_iter
  mlist,        \* memory_writer: the list being built, returned when the source ends
  spc,          \* write_data alone: "idle", "picked", "fast", "generic", "both"
  schunk,       \* write_data alone: the chunk written to both destinations
  sfast,        \* write_data alone: a raw buffered binary file stream
  sgen,         \* write_data alone: a stream that is no BufferedWriter
  serr          \* write_data alone: the exception the generic stream's write raised

writer_vars == <<fs, calls, pc, filelike, arg, compression, filepath, fileobj, handle,
                 produced, data, result, err, repeat, retry, removed, fs0>>
tap_vars == <<tsrc, digest, received, tdata, tpc>>
mem_vars == <<mpc, msrc, mlist>>
sink_vars == <<spc, schunk, sfast, sgen, serr>>
vars == <<fs, calls, pc, filelike, arg, compression, filepath, fileobj, handle,
          produced, data, result, err, repeat, retry, removed, fs0, tsrc, digest, received, tdata, tpc,
          mpc, msrc, mlist, spc, schunk, sfast, sgen, serr>>

\* ------------------------------------------------------------ value sets
None == "None"
Omitted == "<omitted>"
NoData == [val |-> 0, typed |-> FALSE, enc |-> None]
NoFile == <<"<nofile>">>

Fragments == {"out", "gz", "csv", "bz2", ".", "/"}

\* every str the caller may name, up to the length bound
Paths == UNION {[1..n -> Fragments] : n \in 0..MaxPathLen}

\* the destinations of the multi-call writer runs: 'out', 'out.gz', 'out.csv'
DestPaths == {<<"out">>, <<"out", ".", "gz">>, <<"out", ".", "csv">>}

\* a typed numeric array chunk and a generic bytes chunk
Chunks == {[val |-> 1, typed |-> TRUE, enc |-> None],
           [val |-> 2, typed |-> FALSE, enc |-> None]}

\* ------------------------------------------- dataiter.compression (registry)
\* codec name -> opener; None -> the builtin open
COMPRESSION_CLASSES == [c \in {None, "gz", "bz2"} |-> IF c = None THEN "open" ELSE c]
DEFAULT_COMPRESSION == "gz"
\* the extension names decompressed_filepath strips
FILE_CLASSES == {"gz", "csv"}
\* the names a caller may pass as compression: registered, unregistered ('zip'), empty
CompressionArgs == {Omitted, None, "gz", "bz2", "zip", ""}

\* Python truthiness of a compression argument: None and '' are falsy
Truthy(c) == c \notin {None, ""}

\* ------------------------------------------------------- os.path.splitext
\* p.rfind(t), 1-based, 0 when absent
rfind(p, t) ==
  IF \E i \in 1..Len(p) : p[i] = t
  THEN CHOOSE i \in 1..Len(p) : p[i] = t /\ \A j \in (i + 1)..Len(p) : p[j] # t
  ELSE 0

\* the loop that skips the leading dots of the last component
RECURSIVE splitext_scan(_, _, _)
splitext_scan(p, filenameIndex, dotIndex) ==
  IF filenameIndex < dotIndex
  THEN IF p[filenameIndex] # "."
       THEN <<SubSeq(p, 1, dotIndex - 1), SubSeq(p, dotIndex, Len(p))>>
       ELSE splitext_scan(p, filenameIndex + 1, dotIndex)
  ELSE <<p, <<>>>>

splitext_lastdot(p) ==
  LET dotIndex == rfind(p, ".")
  IN IF dotIndex > 0
     THEN <<SubSeq(p, 1, dotIndex - 1), SubSeq(p, dotIndex, Len(p))>>
     ELSE <<p, <<>>>>

splitext(p) ==
  LET sepIndex == rfind(p, "/")
      dotIndex == rfind(p, ".")
  IN IF dotIndex > sepIndex
     THEN splitext_scan(p, sepIndex + 1, dotIndex)
     ELSE <<p, <<>>>>

RECURSIVE lstrip(_, _)
lstrip(s, t) == IF s # <<>> /\ Head(s) = t THEN lstrip(Tail(s), t) ELSE s

\* ext.lstrip('.') in FILE_CLASSES: a single fragment that is a registered name
in_file_classes(e) == Len(e) = 1 /\ e[1] \in FILE_CLASSES

\* ------------------------------------------------------------ path resolver
decompressed_filepath_keep(fp) == fp

decompressed_filepath(fp) ==
  LET name == splitext(fp)[1]
      ext == splitext(fp)[2]
  IN IF in_file_classes(lstrip(ext, ".")) THEN name ELSE fp

open_writable_file_noext(fp, c) == fp

\* the name open_writable_file opens: filepath += '.' + compression
open_writable_file_name(fp, c) ==
  IF Truthy(c) THEN fp \o <<".", c>> ELSE fp

\* mode 'xb': opening fails when the file exists
mode_wb(files, name) == FALSE

mode_xb(files, name) == name \in DOMAIN files

\* the stream a registered opener returns; only the builtin open gives a BufferedWriter
new_stream(c) ==
  [opener |-> COMPRESSION_CLASSES[c],
   buffered_writer |-> (COMPRESSION_CLASSES[c] = "open"),
   ops |-> <<>>,
   closed |-> FALSE]

\* --------------------------------------------------------------- chunk sink
write_data_op_any_stream(stream, d) ==
  IF d.typed
  THEN [op |-> "tofile", data |-> d]
  ELSE [op |-> "write", data |-> d]

write_data_op(stream, d) ==
  IF d.typed /\ stream.buffered_writer
  THEN [op |-> "tofile", data |-> d]
  ELSE [op |-> "write", data |-> d]

write_data_skip(stream, d) == stream

write_data_fallthrough(stream, d) ==
  IF d.typed /\ stream.buffered_writer
  THEN [stream EXCEPT !.ops = Append(Append(@, [op |-> "tofile", data |-> d]),
                                     [op |-> "write", data |-> d])]
  ELSE [stream EXCEPT !.ops = Append(@, [op |-> "write", data |-> d])]

write_data_twice(stream, d) ==
  [stream EXCEPT !.ops = Append(Append(@, write_data_op(stream, d)), write_data_op(stream, d))]

write_data(stream, d) ==
  [stream EXCEPT !.ops = Append(@, write_data_op(stream, d))]

\* an ndarray of four items: mem is its memory in address order, order its layout
\* ("C": 2x2 row-major, "F": 2x2 column-major, "strided": the 1-D view mem[::2]);
\* a bytes chunk is its bytes
Items == {0, 1}
SinkChunks ==
  {[val |-> 1, typed |-> TRUE, enc |-> None, mem |-> m, order |-> o] :
     m \in [1..4 -> Items], o \in {"C", "F", "strided"}}
  \cup {[val |-> 2, typed |-> FALSE, enc |-> None, mem |-> m, order |-> "C"] :
     m \in [1..4 -> Items]}

\* ndarray.tofile: the items in C order, whatever the layout of the array
tofile_bytes(d) ==
  IF d.order = "C" THEN d.mem
  ELSE IF d.order = "F" THEN <<d.mem[1], d.mem[3], d.mem[2], d.mem[4]>>
  ELSE <<d.mem[1], d.mem[3]>>

\* stream.write(data) takes the buffer of data: an ndarray exports it only when C-contiguous
buffer_exported(d) == d.order = "C"
buffer_bytes(d) == d.mem

\* the bytes a stream holds after the operations done on it
RECURSIVE ops_bytes(_)
ops_bytes(ops) ==
  IF ops = <<>> THEN <<>>
  ELSE (IF Head(ops).op = "tofile" THEN tofile_bytes(Head(ops).data)
        ELSE buffer_bytes(Head(ops).data)) \o ops_bytes(Tail(ops))

\* a writable stream that is no BufferedWriter (io.BytesIO, a caller's file-like)
generic_stream == [opener |-> "filelike", buffered_writer |-> FALSE, ops |-> <<>>, closed |-> FALSE]

\* ------------------------------------------------- dataiter.iterate, codecs
\* iter_data: the canonical chunk sequence, chunk by chunk
iter_data(d) == d
\* iter_as_dtype(..., None): the chunk in its generic representation
iter_as_dtype(d, dtype) == IF dtype = None THEN [d EXCEPT !.typed = FALSE] ELSE d
\* iter_compress: one compressed chunk per chunk pulled
iter_compress(d, c) == [d EXCEPT !.enc = c]

handle_write_close(h, d) ==
  [h EXCEPT !.ops = Append(Append(@, [op |-> "write", data |-> d]), [op |-> "close", data |-> NoData]),
            !.closed = TRUE]

handle_write_skip(h, d) == h

\* filelike.write(data)
handle_write(h, d) ==
  [h EXCEPT !.ops = Append(@, [op |-> "write", data |-> d])]

\* ------------------------------------------------------------- hashing tap
hash_update_skip(h0, d) == h0

\* hash.update(data)
hash_update(h0, d) == Append(h0, d)

tap_yield_twice(out, d) == Append(Append(out, d), d)

\* yield data
tap_yield(out, d) == Append(out, d)

\* ------------------------------------------------------------------- Init
NoRemoved == [set |-> FALSE, path |-> <<>>, compression |-> None, failed |-> FALSE]
NoHandle == [id |-> 0, buffered_writer |-> FALSE, ops |-> <<>>, closed |-> FALSE]
NoResult == [kind |-> "none", path |-> <<>>, id |-> 0]

Init ==
  /\ fs = <<>>
  /\ calls = 0
  /\ pc = "idle"
  /\ filelike = [kind |-> "none", path |-> <<>>]
  /\ arg = None
  /\ compression = None
  /\ repeat = FALSE
  /\ retry = "none"
  /\ removed = NoRemoved
  /\ fs0 = <<>>
  /\ filepath = NoFile
  /\ fileobj = NoFile
  /\ handle = NoHandle
  /\ produced = <<>>
  /\ data = NoData
  /\ result = NoResult
  /\ err = None
  /\ tsrc = <<>>
  /\ digest = <<>>
  /\ received = <<>>
  /\ tdata = NoData
  /\ tpc = "ready"
  /\ mpc = "idle"
  /\ msrc = <<>>
  /\ mlist = <<>>
  /\ spc = "idle"
  /\ schunk = NoData
  /\ sfast = new_stream(None)
  /\ sgen = generic_stream
  /\ serr = None

\* ------------------------------------------------------------ file_writer
\* compression=DEFAULT_COMPRESSION in the signature
default_compression(a) == IF a = Omitted THEN DEFAULT_COMPRESSION ELSE a

\* the codec names iter_compress knows
registered(c) == c \in DOMAIN COMPRESSION_CLASSES \ {None}

\* file_writer(filelike: str, ...) up to the loop: resolve the name, open the stream
file_writer_path(p, a) ==
  LET c == default_compression(a)
      name == open_writable_file_name(decompressed_filepath(p), c)
  IN /\ pc \in {"idle", "returned", "raised"}
     /\ calls < MaxCalls
     /\ calls' = calls + 1
     /\ filelike' = [kind |-> "path", path |-> p]
     /\ arg' = a
     /\ compression' = c
     /\ repeat' = (filelike = [kind |-> "path", path |-> p] /\ compression = c /\ fileobj # NoFile)
     /\ retry' = IF /\ filelike = [kind |-> "path", path |-> p]
                    /\ compression = c
                    /\ fileobj # NoFile
                    /\ pc = "raised"
                 THEN "kept"
                 ELSE IF removed = [set |-> TRUE, path |-> p, compression |-> c, failed |-> TRUE]
                 THEN "removed"
                 ELSE "none"
     /\ removed' = NoRemoved
     /\ fs0' = fs
     /\ handle' = NoHandle
     /\ produced' = <<>>
     /\ data' = NoData
     /\ result' = NoResult
     /\ IF c \notin DOMAIN COMPRESSION_CLASSES
        THEN /\ pc' = "raised"
             /\ err' = "KeyError"
             /\ filepath' = NoFile
             /\ fileobj' = NoFile
             /\ fs' = fs
        ELSE IF mode_xb(fs, name)
        THEN /\ pc' = "raised"
             /\ err' = "FileExistsError"
             /\ filepath' = NoFile
             /\ fileobj' = NoFile
             /\ fs' = fs
        ELSE /\ pc' = "loop"
             /\ err' = None
             /\ filepath' = name
             /\ fileobj' = name
             /\ fs' = [n \in DOMAIN fs \cup {name} |->
                         IF n = name THEN new_stream(c) ELSE fs[n]]
     /\ UNCHANGED <<tap_vars, mem_vars, sink_vars>>

\* file_writer(filelike: handle, ...) up to the loop: the lazy pipeline is built
\* what the path branch does with fileobj when it is left, by return or by an exception
\* passing through: nothing, the stream stays as the loop left it
file_writer_exit_close(files, f) ==
  IF f \in DOMAIN files THEN [files EXCEPT ![f].closed = TRUE] ELSE files

file_writer_exit_unlink(files, f) == [n \in DOMAIN files \ {f} |-> files[n]]

file_writer_exit(files, f) == files

\* bw: the caller's handle is itself a BufferedWriter
file_writer_handle(a, bw) ==
  /\ pc \in {"idle", "returned", "raised"}
  /\ calls < MaxCalls
  /\ calls' = calls + 1
  /\ filelike' = [kind |-> "handle", path |-> <<>>]
  /\ arg' = a
  /\ compression' = default_compression(a)
  /\ repeat' = FALSE
  /\ retry' = "none"
  /\ removed' = NoRemoved
  /\ fs0' = fs
  /\ handle' = [id |-> calls + 1, buffered_writer |-> bw, ops |-> <<>>, closed |-> FALSE]
  /\ produced' = <<>>
  /\ data' = NoData
  /\ result' = NoResult
  /\ pc' = "loop"
  /\ err' = None
  /\ filepath' = NoFile
  /\ fileobj' = NoFile
  /\ UNCHANGED <<fs, tap_vars, mem_vars, sink_vars>>

\* the handle branch compresses with a name the registry does not know
compress_fails == filelike.kind = "handle" /\ Truthy(compression) /\ ~registered(compression)

\* the chunk the loop of the current branch gets for the source chunk ch
pipeline(ch) ==
  IF filelike.kind = "path"
  THEN iter_data(ch)
  ELSE LET d == iter_as_dtype(iter_data(ch), None)
       IN IF Truthy(compression) THEN iter_compress(d, compression) ELSE d

\* for data in ...: the source produces the chunk ch
pull_chunk(ch) ==
  /\ pc = "loop"
  /\ ~compress_fails
  /\ Len(produced) < MaxChunks
  /\ produced' = Append(produced, ch)
  /\ data' = pipeline(ch)
  /\ pc' = "write"
  /\ UNCHANGED <<fs, calls, filelike, arg, compression, filepath, fileobj, handle, result, err,
                 repeat, retry, removed, fs0, tap_vars, mem_vars, sink_vars>>

\* the first next() of iter_compress looks the codec up and raises
compress_raise ==
  /\ pc = "loop"
  /\ compress_fails
  /\ pc' = "raised"
  /\ err' = "KeyError"
  /\ UNCHANGED <<fs, calls, filelike, arg, compression, filepath, fileobj, handle, produced, data,
                 result, repeat, retry, removed, fs0, tap_vars, mem_vars, sink_vars>>

\* the source is exhausted: the loop ends and file_writer returns
pull_stop ==
  /\ pc = "loop"
  /\ ~compress_fails
  /\ pc' = "returned"
  /\ result' = IF filelike.kind = "path"
               THEN [kind |-> "path", path |-> filepath, id |-> 0]
               ELSE [kind |-> "handle", path |-> <<>>, id |-> handle.id]
  /\ fs' = file_writer_exit(fs, fileobj)
  /\ UNCHANGED <<calls, filelike, arg, compression, filepath, fileobj, handle, produced, data,
                 err, repeat, retry, removed, fs0, tap_vars, mem_vars, sink_vars>>

\* pulling the next chunk raises in the source
pull_raise ==
  /\ pc = "loop"
  /\ ~compress_fails
  /\ pc' = "raised"
  /\ err' = "SourceError"
  /\ fs' = file_writer_exit(fs, fileobj)
  /\ UNCHANGED <<calls, filelike, arg, compression, filepath, fileobj, handle, produced, data,
                 result, repeat, retry, removed, fs0, tap_vars, mem_vars, sink_vars>>

\* write_data(fileobj, data) in the path branch, filelike.write(data) in the handle branch
write_chunk ==
  /\ pc = "write"
  /\ IF filelike.kind = "path"
     THEN /\ fs' = [fs EXCEPT ![fileobj] = write_data(@, data)]
          /\ handle' = handle
     ELSE /\ handle' = handle_write(handle, data)
          /\ fs' = fs
  /\ pc' = "loop"
  /\ UNCHANGED <<calls, filelike, arg, compression, filepath, fileobj, produced, data, result, err,
                 repeat, retry, removed, fs0, tap_vars, mem_vars, sink_vars>>

\* the stream's write raises
write_raise ==
  /\ pc = "write"
  /\ pc' = "raised"
  /\ err' = "WriteError"
  /\ fs' = file_writer_exit(fs, fileobj)
  /\ UNCHANGED <<calls, filelike, arg, compression, filepath, fileobj, handle, produced, data,
                 result, repeat, retry, removed, fs0, tap_vars, mem_vars, sink_vars>>

CallPath == \E p \in DestPaths, a \in CompressionArgs : file_writer_path(p, a)
\* between two calls the caller removes the file the last call created; the finished
\* call is forgotten but for the history of what was removed
remove_file ==
  /\ pc \in {"returned", "raised"}
  /\ filelike.kind = "path"
  /\ fileobj \in DOMAIN fs
  /\ fs' = [n \in DOMAIN fs \ {fileobj} |-> fs[n]]
  /\ removed' = [set |-> TRUE, path |-> filelike.path, compression |-> compression,
                 failed |-> (pc = "raised")]
  /\ pc' = "idle"
  /\ filelike' = [kind |-> "none", path |-> <<>>]
  /\ arg' = None
  /\ compression' = None
  /\ repeat' = FALSE
  /\ retry' = "none"
  /\ fs0' = fs'
  /\ filepath' = NoFile
  /\ fileobj' = NoFile
  /\ produced' = <<>>
  /\ data' = NoData
  /\ result' = NoResult
  /\ err' = None
  /\ UNCHANGED <<calls, handle, tap_vars, mem_vars, sink_vars>>

CallHandle == \E a \in CompressionArgs, bw \in BOOLEAN : file_writer_handle(a, bw)
PullChunk == \E ch \in Chunks : pull_chunk(ch)

Next ==
  \/ CallPath
  \/ CallHandle
  \/ PullChunk
  \/ compress_raise
  \/ pull_stop
  \/ pull_raise
  \/ write_chunk
  \/ write_raise
  \/ remove_file

Spec == Init /\ [][Next]_vars

\* one file_writer call on any path of the bounded set, the source empty
CallAnyPath ==
  /\ calls = 0
  /\ \E p \in Paths, a \in CompressionArgs : file_writer_path(p, a)

NextPath ==
  \/ CallAnyPath
  \/ pull_stop

SpecPath == Init /\ [][NextPath]_vars

\* -------------------------------------------------------------- iter_hash
\* the consumer asks for the next chunk: for data in data_iter
tap_pull(ch) ==
  /\ tpc = "ready"
  /\ Len(tsrc) < MaxTapChunks
  /\ tsrc' = Append(tsrc, ch)
  /\ tdata' = ch
  /\ tpc' = "update"
  /\ UNCHANGED <<digest, received, writer_vars, mem_vars, sink_vars>>

\* hash.update(data)
tap_update ==
  /\ tpc = "update"
  /\ digest' = hash_update(digest, tdata)
  /\ tpc' = "yield"
  /\ UNCHANGED <<tsrc, received, tdata, writer_vars, mem_vars, sink_vars>>

\* yield data
tap_yield_data ==
  /\ tpc = "yield"
  /\ received' = tap_yield(received, tdata)
  /\ tpc' = "ready"
  /\ UNCHANGED <<tsrc, digest, tdata, writer_vars, mem_vars, sink_vars>>

\* data_iter is exhausted: the generator ends
tap_stop ==
  /\ tpc = "ready"
  /\ tpc' = "done"
  /\ UNCHANGED <<tsrc, digest, received, tdata, writer_vars, mem_vars, sink_vars>>

\* data_iter raises: the error passes through the generator
tap_source_raise ==
  /\ tpc = "ready"
  /\ tpc' = "raised"
  /\ UNCHANGED <<tsrc, digest, received, tdata, writer_vars, mem_vars, sink_vars>>

\* the consumer stops asking: the generator is never resumed
tap_abort ==
  /\ tpc = "ready"
  /\ tpc' = "aborted"
  /\ UNCHANGED <<tsrc, digest, received, tdata, writer_vars, mem_vars, sink_vars>>

TapPull == \E ch \in Chunks : tap_pull(ch)

NextHash ==
  \/ TapPull
  \/ tap_update
  \/ tap_yield_data
  \/ tap_stop
  \/ tap_source_raise
  \/ tap_abort

SpecHash == Init /\ [][NextHash]_vars

\* ---------------------------------------------------------- memory_writer
list_append_front(l, d) == <<d>> \o l

\* list(...): the next element is appended
list_append(l, d) == Append(l, d)

\* memory_writer(data_iter) is called
memory_writer_call ==
  /\ mpc = "idle"
  /\ mpc' = "loop"
  /\ UNCHANGED <<msrc, mlist, writer_vars, tap_vars, sink_vars>>

\* list() pulls the next chunk of iter_data(data_iter)
mem_pull(ch) ==
  /\ mpc = "loop"
  /\ Len(msrc) < MaxMemChunks
  /\ msrc' = Append(msrc, ch)
  /\ mlist' = list_append(mlist, iter_data(ch))
  /\ UNCHANGED <<mpc, writer_vars, tap_vars, sink_vars>>

\* the source is exhausted: the list is returned
mem_stop ==
  /\ mpc = "loop"
  /\ mpc' = "returned"
  /\ UNCHANGED <<msrc, mlist, writer_vars, tap_vars, sink_vars>>

\* pulling raises in the source: the error propagates, no list is returned
mem_raise ==
  /\ mpc = "loop"
  /\ mpc' = "raised"
  /\ UNCHANGED <<msrc, mlist, writer_vars, tap_vars, sink_vars>>

MemPull == \E ch \in Chunks : mem_pull(ch)

NextMem ==
  \/ memory_writer_call
  \/ MemPull
  \/ mem_stop
  \/ mem_raise

SpecMem == Init /\ [][NextMem]_vars

\* ------------------------------------------------------- write_data alone
\* the chunk both destinations are given
sink_pick(ch) ==
  /\ spc = "idle"
  /\ schunk' = ch
  /\ spc' = "picked"
  /\ UNCHANGED <<sfast, sgen, serr, writer_vars, tap_vars, mem_vars>>

\* write_data(fileobj, data) on the BufferedWriter
sink_write_fast ==
  /\ spc \in {"picked", "generic"}
  /\ sfast' = write_data(sfast, schunk)
  /\ spc' = IF spc = "picked" THEN "fast" ELSE "both"
  /\ UNCHANGED <<schunk, sgen, serr, writer_vars, tap_vars, mem_vars>>

\* write_data(fileobj, data) on the other stream; its write raises when it cannot
\* take the buffer of the chunk
sink_write_generic ==
  /\ spc \in {"picked", "fast"}
  /\ IF write_data_op(sgen, schunk).op = "write" /\ schunk.typed /\ ~buffer_exported(schunk)
     THEN /\ serr' = "ValueError"
          /\ sgen' = sgen
     ELSE /\ serr' = None
          /\ sgen' = write_data(sgen, schunk)
  /\ spc' = IF spc = "picked" THEN "generic" ELSE "both"
  /\ UNCHANGED <<schunk, sfast, writer_vars, tap_vars, mem_vars>>

SinkPick == \E ch \in SinkChunks : sink_pick(ch)

NextSink ==
  \/ SinkPick
  \/ sink_write_fast
  \/ sink_write_generic

SpecSink == Init /\ [][NextSink]_vars

\* ================================================================= claims
\* the operations the current call has performed on its destination
Written ==
  IF filelike.kind = "path"
  THEN IF fileobj \in DOMAIN fs THEN fs[fileobj].ops ELSE <<>>
  ELSE handle.ops

\* the call has a destination to write to
HasDestination == filelike.kind = "handle" \/ (filelike.kind = "path" /\ fileobj # NoFile)

\* C1: to a path, or to a handle with no codec, the k-th write carries the k-th chunk
\* the source produced: nothing is skipped, duplicated, reordered or batched, and a
\* call that returns has written every chunk.
C1_OrderPreserved ==
  (HasDestination /\ (filelike.kind = "path" \/ compression = None)) =>
    /\ Len(Written) <= Len(produced)
    /\ Len(Written) >= Len(produced) - 1
    /\ \A k \in 1..Len(Written) :
         /\ Written[k].op \in {"write", "tofile"}
         /\ Written[k].data.val = produced[k].val
         /\ Written[k].data.enc = None
    /\ (pc \in {"loop", "returned"} => Len(Written) = Len(produced))

C1_Witness ==
  /\ pc = "returned"
  /\ filelike.kind = "handle"
  /\ compression = None
  /\ Len(produced) >= 2
  /\ produced[1] # produced[2]
  /\ Len(handle.ops) = Len(produced)

\* C2: a second call with the same path and codec as a call that created its file
\* raises the destination-exists error, pulls no chunk and leaves the files as they were.
C2_Exclusive ==
  repeat =>
    /\ calls >= 2
    /\ filelike.kind = "path"
    /\ pc = "raised"
    /\ err = "FileExistsError"
    /\ produced = <<>>
    /\ fs = fs0
    /\ fs # <<>>

C2_Witness ==
  /\ repeat
  /\ calls = 2
  /\ pc = "raised"
  /\ err = "FileExistsError"
  /\ \E n \in DOMAIN fs : Len(fs[n].ops) >= 2

\* the extension of a path: what follows the last "." of the last component, when that
\* component has a character other than "." before it
ExtensionDots(p) ==
  {i \in 1..Len(p) :
     /\ p[i] = "."
     /\ \A j \in (i + 1)..Len(p) : p[j] \notin {".", "/"}
     /\ \E j \in 1..(i - 1) : p[j] # "." /\ \A k \in j..i : p[k] # "/"}

WithoutKnownExtension(p) ==
  IF \E i \in ExtensionDots(p) : Len(p) = i + 1 /\ p[Len(p)] \in FILE_CLASSES
  THEN SubSeq(p, 1, Len(p) - 2)
  ELSE p

ExpectedName(p, c) ==
  WithoutKnownExtension(p) \o (IF c # None THEN <<".", c>> ELSE <<>>)

\* C3: the path file_writer returns names the file it created, and is the requested
\* path less one trailing extension of the recognized set, plus "." + codec when a
\* codec is selected.
C3_ReturnedName ==
  (pc = "returned" /\ filelike.kind = "path") =>
    /\ result.kind = "path"
    /\ DOMAIN fs = {result.path}
    /\ result.path = ExpectedName(filelike.path, compression)

C3_Witness ==
  /\ pc = "returned"
  /\ filelike.path = <<"out", ".", "csv">>
  /\ compression = "gz"
  /\ result.path = <<"out", ".", "gz">>
  /\ result.path \in DOMAIN fs

\* the name file_writer resolves for the requested path p under the codec c
FinalFilepath(p, c) == open_writable_file_name(decompressed_filepath(p), c)

\* the last component of p has a character other than "."
HasStem(p) == \E j \in 1..Len(p) : p[j] # "." /\ \A k \in j..Len(p) : p[k] # "/"

\* C4 as stated: for every path and every codec of the stripped-extension set, the
\* returned path resolves to itself under the same codec.
C4_IdempotentAnyPath ==
  (pc = "returned" /\ filelike.kind = "path" /\ compression \in FILE_CLASSES) =>
    FinalFilepath(result.path, compression) = result.path

\* C4 (amended): for every path whose last component has a character other than "."
\* and every codec of the stripped-extension set, the returned path resolves to itself
\* under the same codec.
C4_Idempotent ==
  (/\ pc = "returned"
   /\ filelike.kind = "path"
   /\ compression \in FILE_CLASSES
   /\ HasStem(filelike.path)) =>
    FinalFilepath(result.path, compression) = result.path

C4_Witness ==
  /\ pc = "returned"
  /\ filelike.path = <<"out", ".", "gz">>
  /\ compression = "gz"
  /\ result.path = <<"out", ".", "gz">>
  /\ FinalFilepath(result.path, compression) = <<"out", ".", "gz">>

\* C5: once the tapped sequence is consumed to the end, the consumer has received
\* exactly the source chunks in order, and the digest one update per chunk in order.
C5_HashTransparent ==
  tpc = "done" => (received = tsrc /\ digest = tsrc)

C5_Witness ==
  /\ tpc = "done"
  /\ Len(tsrc) >= 3
  /\ tsrc[1] # tsrc[2]
  /\ received = tsrc

IsPrefix(a, b) == Len(a) <= Len(b) /\ SubSeq(b, 1, Len(a)) = a

\* C6: a chunk is absorbed before it is yielded; whenever the consumer has control the
\* digest holds exactly the chunks the consumer received and no other chunk was pulled;
\* after the consumer stops nothing more is pulled or absorbed.
C6_TapEarlyAbort ==
  /\ [](/\ IsPrefix(received, digest)
        /\ IsPrefix(digest, tsrc)
        /\ (tpc = "yield" => digest = Append(received, tdata))
        /\ (tpc \in {"ready", "done", "raised", "aborted"} =>
              (digest = received /\ tsrc = received)))
  /\ [][tpc = "aborted" => (tsrc' = tsrc /\ digest' = digest /\ received' = received)]_vars

C6_Witness ==
  /\ tpc = "aborted"
  /\ Len(received) = 1
  /\ digest = received
  /\ Len(tsrc) < MaxTapChunks

\* the compression of the current call names no entry of the registry
UnknownCodec == calls > 0 /\ compression \notin DOMAIN COMPRESSION_CLASSES

\* C7: with a codec name the registry does not hold, the call raises before any stream
\* is opened, any file created, any chunk pulled or anything written to the handle,
\* whether the destination is a path or a handle.
C7_CodecFailFast ==
  UnknownCodec =>
    /\ pc \in {"loop", "raised"}
    /\ (pc = "raised" => err = "KeyError")
    /\ produced = <<>>
    /\ handle.ops = <<>>
    /\ fileobj = NoFile
    /\ fs = fs0

\* C8: when pulling chunk k+1 raises in the source, the destination holds exactly the
\* chunks 1..k in order, nothing is rolled back, and in the path branch the file is
\* still on disk.
C8_UpstreamFailurePrefix ==
  (pc = "raised" /\ err = "SourceError") =>
    /\ Len(Written) = Len(produced)
    /\ \A k \in 1..Len(Written) :
         /\ Written[k].op \in {"write", "tofile"}
         /\ Written[k].data.val = produced[k].val
    /\ (filelike.kind = "path" =>
          /\ fileobj \in DOMAIN fs
          /\ \A n \in DOMAIN fs0 : n \in DOMAIN fs /\ fs[n] = fs0[n])

C8_Witness ==
  /\ pc = "raised"
  /\ err = "SourceError"
  /\ filelike.kind = "path"
  /\ Len(produced) = 1
  /\ Len(fs[fileobj].ops) = 1

\* C9: for a handle destination file_writer only writes to the handle: it never closes
\* or replaces it and creates no file, in every outcome, and it returns that handle.
C9_HandleOwnership ==
  filelike.kind = "handle" =>
    /\ \A k \in 1..Len(handle.ops) : handle.ops[k].op = "write"
    /\ ~handle.closed
    /\ handle.id = calls
    /\ fs = fs0
    /\ fileobj = NoFile
    /\ (pc = "returned" => (result.kind = "handle" /\ result.id = handle.id))

C9_Witness ==
  /\ filelike.kind = "handle"
  /\ pc = "raised"
  /\ err = "WriteError"
  /\ Len(handle.ops) = 1
  /\ fs0 # <<>>

\* a codec is selected: the caller named a registered codec or left the default
Selected == compression \in DOMAIN COMPRESSION_CLASSES /\ compression # None

\* C10: the codec is applied all-or-nothing.  Path branch: "." + codec is appended to the
\* stripped path exactly when the stream is opened by that codec's opener.  Handle
\* branch: every chunk written went through that codec's transform exactly when a codec
\* is selected (the default when the caller passes none), and reaches the handle
\* untransformed otherwise.
C10_CodecConsistency ==
  /\ (filelike.kind = "path" /\ fileobj # NoFile) =>
       \A c \in DOMAIN COMPRESSION_CLASSES \ {None} :
         (filepath = decompressed_filepath(filelike.path) \o <<".", c>>)
           <=> (fs[fileobj].opener = COMPRESSION_CLASSES[c])
  /\ (filelike.kind = "path" /\ fileobj # NoFile /\ ~Selected) =>
       /\ filepath = decompressed_filepath(filelike.path)
       /\ fs[fileobj].opener = COMPRESSION_CLASSES[None]
  /\ filelike.kind = "handle" =>
       \A k \in 1..Len(handle.ops) :
         /\ Selected => handle.ops[k].data.enc = compression
         /\ ~Selected => handle.ops[k].data.enc = None
         /\ arg = Omitted => handle.ops[k].data.enc = DEFAULT_COMPRESSION
         /\ arg = None => handle.ops[k].data.enc = None

C10_Witness ==
  /\ filelike.kind = "handle"
  /\ arg = Omitted
  /\ pc = "returned"
  /\ Len(handle.ops) >= 2
  /\ handle.ops[2].data.enc = DEFAULT_COMPRESSION

\* C11: memory_writer pulls each chunk once, touches no file, handle, codec or digest,
\* and returns a list as long as the source whose i-th element is the i-th chunk.
C11_MemoryWriter ==
  /\ Len(mlist) = Len(msrc)
  /\ (mpc = "returned" => \A i \in 1..Len(msrc) : mlist[i] = msrc[i])
  /\ fs = <<>>
  /\ handle = NoHandle
  /\ digest = <<>>
  /\ compression = None

C11_Witness ==
  /\ mpc = "returned"
  /\ Len(msrc) >= 3
  /\ msrc[1] # msrc[2]
  /\ mlist = msrc

\* C12: while file_writer writes to a handle, with or without a codec, at most one chunk
\* pulled from the source has not yet been passed to the handle's write, and a chunk is
\* pulled only once the one before it has been written.
C12_Streaming ==
  filelike.kind = "handle" =>
    /\ Len(produced) - Len(handle.ops) \in {0, 1}
    /\ (pc \in {"loop", "returned"} => Len(handle.ops) = Len(produced))
    /\ (pc = "write" => Len(handle.ops) = Len(produced) - 1)

C12_Witness ==
  /\ filelike.kind = "handle"
  /\ compression = "gz"
  /\ pc = "write"
  /\ Len(produced) = 2
  /\ Len(handle.ops) = 1
  /\ handle.ops[1].data.enc = "gz"

\* C13 as stated: for every typed array chunk, the BufferedWriter written through the
\* bulk-binary path and the other stream written through the generic path hold the
\* same bytes.
C13_FastPathEquivalentAnyArray ==
  (spc = "both" /\ schunk.typed) => ops_bytes(sfast.ops) = ops_bytes(sgen.ops)

\* C13 (amended): for every C-contiguous typed array chunk, the BufferedWriter written
\* through the bulk-binary path and the other stream written through the generic path
\* hold the same bytes.
C13_FastPathEquivalent ==
  (spc = "both" /\ schunk.typed /\ schunk.order = "C") =>
    /\ serr = None
    /\ ops_bytes(sfast.ops) = ops_bytes(sgen.ops)
    /\ ops_bytes(sfast.ops) = schunk.mem

C13_Witness ==
  /\ spc = "both"
  /\ schunk.typed
  /\ schunk.order = "C"
  /\ schunk.mem = <<0, 1, 1, 1>>
  /\ Len(sfast.ops) = 1
  /\ sfast.ops[1].op = "tofile"
  /\ Len(sgen.ops) = 1
  /\ sgen.ops[1].op = "write"
  /\ ops_bytes(sgen.ops) = <<0, 1, 1, 1>>

\* C14: write_data does exactly one write operation per call, the bulk-binary one exactly
\* when the chunk is a typed array and the stream a BufferedWriter, the generic one with
\* the chunk as-is otherwise; the handle branch only ever uses the handle's generic write,
\* whatever the handle and the chunk are.
C14_Dispatch ==
  /\ filelike.kind = "path" /\ fileobj # NoFile =>
       /\ Len(Written) = (IF pc = "write" \/ (pc = "raised" /\ err = "WriteError")
                          THEN Len(produced) - 1 ELSE Len(produced))
       /\ \A i \in 1..Len(Written) :
            /\ Written[i].data = produced[i]
            /\ Written[i].op = "tofile" <=>
                 (produced[i].typed /\ COMPRESSION_CLASSES[compression] = "open")
            /\ Written[i].op \in {"tofile", "write"}
  /\ filelike.kind = "handle" =>
       \A i \in 1..Len(handle.ops) : handle.ops[i].op = "write"

\* the four combinations of chunk and stream have been written by the path branch, and a
\* BufferedWriter handle has been given a chunk
C14_Witness ==
  /\ filelike.kind = "path"
  /\ pc = "returned"
  /\ compression = None
  /\ Len(Written) = 2
  /\ Written[1].op = "tofile" /\ Written[1].data.typed
  /\ Written[2].op = "write" /\ ~Written[2].data.typed
  /\ \E f \in DOMAIN fs :
       /\ fs[f].opener = "gz"
       /\ Len(fs[f].ops) = 2
       /\ fs[f].ops[1].op = "write" /\ fs[f].ops[1].data.typed
       /\ fs[f].ops[2].op = "write" /\ ~fs[f].ops[2].data.typed

C14_WitnessHandle ==
  /\ filelike.kind = "handle"
  /\ handle.buffered_writer
  /\ Len(handle.ops) = 1
  /\ produced[1].typed

\* C15: when the write of a chunk raises, file_writer raises that error and has pulled
\* no chunk beyond the one it was writing; and the path branch leaves every stream it
\* opened open, when it returns and when it raises.
C15_WriteFailure ==
  /\ (pc = "raised" /\ err = "WriteError") =>
       /\ Len(produced) >= 1
       /\ Len(Written) = Len(produced) - 1
       /\ data = pipeline(produced[Len(produced)])
       /\ result = NoResult
  /\ \A f \in DOMAIN fs : ~fs[f].closed

C15_Witness ==
  /\ filelike.kind = "path"
  /\ pc = "raised"
  /\ err = "WriteError"
  /\ Len(produced) = 2
  /\ Len(fs[fileobj].ops) = 1
  /\ ~fs[fileobj].closed
  /\ \E f \in DOMAIN fs : f # fileobj

\* C16: the path branch has created the target file before it pulls the first chunk, a
\* call that fails after that leaves the file behind (empty when the source failed on
\* the first chunk), and a retry with the same path and codec raises the
\* destination-exists error, until the caller has removed the file.
C16_RetryAfterFailure ==
  /\ (filelike.kind = "path" /\ pc \in {"loop", "write"}) =>
       /\ fileobj \in DOMAIN fs
       /\ (Len(produced) <= 1 /\ pc = "write" => fs[fileobj].ops = <<>>)
       /\ (produced = <<>> => fs[fileobj].ops = <<>>)
  /\ (filelike.kind = "path" /\ pc = "raised" /\ err \in {"SourceError", "WriteError"}) =>
       /\ fileobj \in DOMAIN fs
       /\ (produced = <<>> => fs[fileobj].ops = <<>>)
  /\ retry = "kept" =>
       /\ pc = "raised"
       /\ err = "FileExistsError"
       /\ produced = <<>>
       /\ fs = fs0
  /\ retry = "removed" =>
       /\ err \notin {"FileExistsError", "KeyError"}
       /\ fileobj \in DOMAIN fs

\* the source failed on the first chunk, the empty file was kept and the retry failed
C16_Witness ==
  /\ retry = "kept"
  /\ calls = 2
  /\ filelike.kind = "path"
  /\ err = "FileExistsError"
  /\ fs # <<>>
  /\ \A f \in DOMAIN fs : fs[f].ops = <<>>

C16_WitnessRemoved ==
  /\ retry = "removed"
  /\ pc = "returned"
  /\ Len(produced) = 2

====
